---- MODULE Spec2Model ----
(***************************************************************************)
(* Model of src/app.js: an Express service that relays a caller-supplied   *)
(* bearer token to the Google My Business API and aggregates per-location  *)
(* review statistics.                                                      *)
(*                                                                         *)
(* One behaviour follows one HTTP request on a protected route.  Node runs *)
(* a handler from an I/O event to its next pending await without           *)
(* interruption (promise continuations are microtasks), so an action is    *)
(* one such run: the arrival of the request, or the arrival of one         *)
(* upstream reply, together with everything the handler does before it     *)
(* suspends again.                                                         *)
(*                                                                         *)
(* JSON objects are records; an absent property is an absent field.        *)
(* Strings the code takes apart are sequences: a resource name is the      *)
(* sequence of its '/'-separated segments, a header value and the result   *)
(* of toFixed are sequences of characters.  Ratings are integers counting  *)
(* eighths (4.5 is 36): eighths are exact IEEE doubles, and for lists of   *)
(* fewer than five entries their mean is never within an ulp of a rounding *)
(* boundary without being on it, so the exact arithmetic below is the      *)
(* arithmetic of the doubles.                                              *)
(***************************************************************************)
EXTENDS Integers, Sequences, FiniteSets, TLC

VARIABLES
    pc,         \* position of the route handler
    route,      \* the route of the request
    authHeader, \* <<>> when the request has no Authorization header, else <<value>>
    accessToken,\* req.accessToken
    firstReply, \* <<>> until the route's first upstream call is answered, then
                \* <<outcome>>; for the aggregator this is the location-list call
    locations,  \* const locations (line 148)
    replies,    \* per location, how its reviews call was answered so far
    promises,   \* statsPromises: one promise per location
    joined,     \* whether Promise.all(statsPromises) has settled
    issued,     \* upstream GET requests issued so far, in order
    responses   \* responses sent to the caller, in order

vars == <<pc, route, authHeader, accessToken, firstReply, locations,
          replies, promises, joined, issued, responses>>

-----------------------------------------------------------------------------
(* Bounds *)

MaxLocations == 3

-----------------------------------------------------------------------------
(* Generic helpers *)

Has(r, f) == f \in DOMAIN r

RECURSIVE SumSeq(_)
SumSeq(s) == IF s = <<>> THEN 0 ELSE Head(s) + SumSeq(Tail(s))

SeqsUpTo(S, n) == UNION { [1..k -> S] : k \in 0..n }

-----------------------------------------------------------------------------
(* Requests *)

Routes == {"accounts", "locations", "reviewsStats", "allReviewsStats"}

BearerPrefix == <<"B", "e", "a", "r", "e", "r", " ">>

\* Authorization header values a caller may send.  A value never ends in a
\* space: the HTTP parser strips trailing whitespace from header values.
HeaderValues ==
    { <<>>,                                             \* empty value
      <<"B", "e", "a", "r", "e", "r">>,                 \* scheme only
      <<"B", "a", "s", "i", "c", " ", "t">>,            \* another scheme
      <<"b", "e", "a", "r", "e", "r", " ", "t">>,       \* wrong case
      <<"t">>,                                          \* bare token
      <<"B", "e", "a", "r", "e", "r", " ", "t">>,       \* Bearer t
      <<"B", "e", "a", "r", "e", "r", " ", "t", " ", "u">> } \* Bearer t u

AuthHeaders == {<<>>} \cup { <<v>> : v \in HeaderValues }

\* String.prototype.startsWith
startsWith(s, p) == Len(s) >= Len(p) /\ SubSeq(s, 1, Len(p)) = p

\* String.prototype.split(' '): the pieces between the spaces of s
RECURSIVE splitSpace(_, _)
splitSpace(s, cur) ==
    IF s = <<>> THEN <<cur>>
    ELSE IF Head(s) = " " THEN <<cur>> \o splitSpace(Tail(s), <<>>)
    ELSE splitSpace(Tail(s), Append(cur, Head(s)))

\* Mutant of tokenRejected: only a missing header is refused
tokenRejectedMissingOnly(h) ==
    \/ h = <<>>
    \/ h[1] = <<>>

\* validateToken (the 401 branch): the header is missing, empty, or does not
\* start with "Bearer "
tokenRejected(h) ==
    \/ h = <<>>
    \/ h[1] = <<>>
    \/ ~startsWith(h[1], BearerPrefix)

\* req.accessToken = authHeader.split(' ')[1]; element 1 of a one-element
\* array is undefined, which the Authorization template writes as text
tokenOf(h) ==
    LET parts == splitSpace(h[1], <<>>)
    IN  IF Len(parts) >= 2 THEN parts[2] ELSE <<"undefined">>

unauthorized ==
    [status |-> 401,
     body   |-> [error   |-> "Token d'authentification manquant ou invalide",
                 message |-> "Veuillez fournir un token Bearer dans le header Authorization"]]

-----------------------------------------------------------------------------
(* The upstream API: what a GET may answer *)

AccountId  == "a1"
LocationId == "l1"

\* Errors axios.get rejects with: an HTTP error with a Google error body, an
\* HTTP error with an empty body, a transport error without a response.
ErrNotFound ==
    [message  |-> "Request failed with status code 404",
     response |-> [status |-> 404,
                   data   |-> [error |-> [message |-> "Requested entity was not found."]]]]
ErrUnavailable ==
    [message  |-> "Request failed with status code 503",
     response |-> [status |-> 503]]
ErrNetwork ==
    [message |-> "Network Error"]

AxiosErrors == {ErrNotFound, ErrUnavailable, ErrNetwork}

\* The TypeError of reading .split of undefined
TypeErrorSplit ==
    [message |-> "Cannot read properties of undefined (reading 'split')"]

\* Locations the list call may return.  Google sets name on every location,
\* but nothing on the wire guarantees a property: the last one has no name.
LocShop ==
    [name         |-> <<"accounts", "a1", "locations", "l1">>,
     locationName |-> "Shop",
     address      |-> [addressLines |-> <<"1 rue A", "Paris">>]]
LocBare ==
    [name |-> <<"accounts", "a1", "locations", "l2">>]
LocNameless ==
    [locationName |-> "Ghost"]

LocationPool == {LocShop, LocBare, LocNameless}

\* Bodies of a successful list call: with a locations array, or without one
ListBodies ==
    { [locations |-> l] : l \in SeqsUpTo(LocationPool, MaxLocations) }
        \cup { [kind |-> "mybusiness#locations"] }

\* Bodies of a successful accounts call
AccountsBodies ==
    { [accounts |-> <<[name |-> <<"accounts", "a1">>]>>],
      [kind |-> "mybusiness#accounts"] }

\* Bodies of a successful reviews call: counters present, or omitted
ReviewsBodies ==
    { [totalReviewCount |-> 10, averageRating |-> 36],  \* 4.5
      [totalReviewCount |-> 3,  averageRating |-> 35],  \* 4.375
      [reviews |-> <<>>] }

Fulfilled(data) == [ok |-> TRUE, data |-> data]
Rejected(error) == [ok |-> FALSE, error |-> error]

ReviewsOutcomes ==
    { Fulfilled(d) : d \in ReviewsBodies } \cup { Rejected(e) : e \in {ErrNotFound, ErrNetwork} }
ListOutcomes ==
    { Fulfilled(d) : d \in ListBodies } \cup { Rejected(e) : e \in AxiosErrors }
AccountsOutcomes ==
    { Fulfilled(d) : d \in AccountsBodies } \cup { Rejected(e) : e \in AxiosErrors }

-----------------------------------------------------------------------------
(* Error responses: the catch block of each route *)

\* Each catch block answers with error.response?.status || 500 and
\* error.response?.data || error.message (an empty body counts as absent)

accountsCatch(error) ==
    [status |-> IF Has(error, "response") /\ Has(error.response, "status")
                THEN error.response.status ELSE 500,
     body   |-> [success |-> FALSE,
                 error   |-> IF Has(error, "response") /\ Has(error.response, "data")
                             THEN error.response.data ELSE error.message]]

locationsCatch(error) ==
    [status |-> IF Has(error, "response") /\ Has(error.response, "status")
                THEN error.response.status ELSE 500,
     body   |-> [success |-> FALSE,
                 error   |-> IF Has(error, "response") /\ Has(error.response, "data")
                             THEN error.response.data ELSE error.message]]

\* Mutant of reviewsStatsCatch: the failure is absorbed into zeroed stats,
\* as the aggregator's per-location catch does
reviewsStatsCatchAbsorbs(error) ==
    [status |-> 200,
     body   |-> [success    |-> TRUE,
                 locationId |-> LocationId,
                 stats      |-> [totalReviewCount |-> 0, averageRating |-> 0]]]

reviewsStatsCatch(error) ==
    [status |-> IF Has(error, "response") /\ Has(error.response, "status")
                THEN error.response.status ELSE 500,
     body   |-> [success |-> FALSE,
                 error   |-> IF Has(error, "response") /\ Has(error.response, "data")
                             THEN error.response.data ELSE error.message]]

\* Mutant of allReviewsStatsCatch: the upstream status is not relayed
allReviewsStatsCatchAlways500(error) ==
    [status |-> 500,
     body   |-> [success |-> FALSE,
                 error   |-> IF Has(error, "response") /\ Has(error.response, "data")
                             THEN error.response.data ELSE error.message]]

allReviewsStatsCatch(error) ==
    [status |-> IF Has(error, "response") /\ Has(error.response, "status")
                THEN error.response.status ELSE 500,
     body   |-> [success |-> FALSE,
                 error   |-> IF Has(error, "response") /\ Has(error.response, "data")
                             THEN error.response.data ELSE error.message]]

-----------------------------------------------------------------------------
(* Success responses of the relay routes *)

accountsOk(data) ==
    [status |-> 200,
     body   |-> [success  |-> TRUE,
                 accounts |-> IF Has(data, "accounts") THEN data.accounts ELSE <<>>]]

locationsOk(data) ==
    [status |-> 200,
     body   |-> [success   |-> TRUE,
                 locations |-> IF Has(data, "locations") THEN data.locations ELSE <<>>]]

\* x || 0 for a counter x of a reviews body
orZero(data, f) == IF Has(data, f) THEN data[f] ELSE 0

reviewsStatsOk(data) ==
    [status |-> 200,
     body   |-> [success    |-> TRUE,
                 locationId |-> LocationId,
                 stats      |-> [totalReviewCount |-> orZero(data, "totalReviewCount"),
                                 averageRating    |-> orZero(data, "averageRating")]]]

-----------------------------------------------------------------------------
(* The per-location callback of statsPromises *)

\* location.name.split('/').pop(), for a location that has a name
locationIdOf(location) == location.name[Len(location.name)]

\* location.locationName || 'N/A'
locationNameOf(location) ==
    IF Has(location, "locationName") THEN location.locationName ELSE "N/A"

\* Array.prototype.join(', ')
RECURSIVE joinComma(_)
joinComma(lines) ==
    IF lines = <<>> THEN <<>>
    ELSE IF Len(lines) = 1 THEN lines
    ELSE <<Head(lines), ", ">> \o joinComma(Tail(lines))

\* location.address?.addressLines?.join(', ') || 'N/A'
addressOf(location) ==
    IF /\ Has(location, "address")
       /\ Has(location.address, "addressLines")
       /\ joinComma(location.address.addressLines) # <<>>
    THEN joinComma(location.address.addressLines) ELSE <<"N/A">>

\* error.response?.data?.error?.message || 'Impossible de récupérer les avis'
itemErrorMessage(error) ==
    IF /\ Has(error, "response")
       /\ Has(error.response, "data")
       /\ Has(error.response.data, "error")
       /\ Has(error.response.data.error, "message")
    THEN error.response.data.error.message
    ELSE "Impossible de récupérer les avis"

\* A settled promise
Resolve(value) == [state |-> "fulfilled", value |-> value]
Reject(reason) == [state |-> "rejected", reason |-> reason]
Pending == [state |-> "pending"]

\* The object literal of the try block (lines 166-172).  Its first property
\* reads location.name.split, which throws when the location has no name.
statsEntry(location, data) ==
    [locationId       |-> locationIdOf(location),
     locationName     |-> locationNameOf(location),
     address          |-> addressOf(location),
     totalReviewCount |-> orZero(data, "totalReviewCount"),
     averageRating    |-> orZero(data, "averageRating")]

\* The object literal of the catch block (lines 174-181)
failedEntry(location, error) ==
    [locationId       |-> locationIdOf(location),
     locationName     |-> locationNameOf(location),
     address          |-> addressOf(location),
     totalReviewCount |-> 0,
     averageRating    |-> 0,
     error            |-> itemErrorMessage(error)]

\* The catch block: returns the failed entry, or throws in turn
statsCatch(location, error) ==
    IF Has(location, "name")
    THEN Resolve(failedEntry(location, error))
    ELSE Reject(TypeErrorSplit)

\* The callback from the reply of its reviews call to its settlement
statsCallback(location, outcome) ==
    IF outcome.ok
    THEN IF Has(location, "name")
         THEN Resolve(statsEntry(location, outcome.data))
         ELSE statsCatch(location, TypeErrorSplit)
    ELSE statsCatch(location, outcome.error)

-----------------------------------------------------------------------------
(* Global statistics *)

DigitChars == <<"0", "1", "2", "3", "4", "5", "6", "7", "8", "9">>

\* The decimal digits of a natural number
RECURSIVE digitsOf(_)
digitsOf(n) ==
    IF n < 10 THEN <<DigitChars[n + 1]>>
    ELSE Append(digitsOf(n \div 10), DigitChars[(n % 10) + 1])

\* Number.prototype.toFixed(2) of num/den >= 0: the n for which n/100 is
\* nearest to the number (the larger n of two), written as digits with two
\* decimals
toFixed2(num, den) ==
    LET n == (200 * num + den) \div (2 * den)
    IN  digitsOf(n \div 100) \o <<".">> \o
        <<DigitChars[((n % 100) \div 10) + 1], DigitChars[(n % 10) + 1]>>

ReviewCounts(allStats) == [i \in 1..Len(allStats) |-> allStats[i].totalReviewCount]
Ratings(allStats) == [i \in 1..Len(allStats) |-> allStats[i].averageRating]

\* Mutant of totalReviews: the reduction stops one entry short
totalReviewsButLast(allStats) ==
    SumSeq(SubSeq(ReviewCounts(allStats), 1, Len(allStats) - 1))

\* allStats.reduce((sum, stat) => sum + stat.totalReviewCount, 0)
totalReviews(allStats) == SumSeq(ReviewCounts(allStats))

\* Mutant of averageRatingAcrossAllLocations: the divisor counts only the
\* entries without an error
averageOverSuccessful(allStats) ==
    LET good == { i \in 1..Len(allStats) : ~Has(allStats[i], "error") }
    IN  IF Len(allStats) > 0
        THEN [type  |-> "string",
              chars |-> toFixed2(SumSeq(Ratings(allStats)),
                                 8 * (IF good = {} THEN 1 ELSE Cardinality(good)))]
        ELSE [type |-> "number", value |-> 0]

\* The mean as toFixed(2) writes it, or the number 0 for an empty list.
\* Ratings count eighths, hence the divisor 8 * length.
averageRatingAcrossAllLocations(allStats) ==
    IF Len(allStats) > 0
    THEN [type  |-> "string",
          chars |-> toFixed2(SumSeq(Ratings(allStats)), 8 * Len(allStats))]
    ELSE [type |-> "number", value |-> 0]

globalStatsOf(locs, allStats) ==
    [totalLocations |-> Len(locs),
     totalReviews   |-> totalReviews(allStats),
     averageRatingAcrossAllLocations |-> averageRatingAcrossAllLocations(allStats)]

allReviewsStatsOk(locs, allStats) ==
    [status |-> 200,
     body   |-> [success       |-> TRUE,
                 accountId     |-> AccountId,
                 globalStats   |-> globalStatsOf(locs, allStats),
                 locationStats |-> allStats]]

-----------------------------------------------------------------------------
(* Upstream calls *)

\* The axios.get each route issues first.  index is the position in the
\* location list of the location a reviews call is for (0: none).
firstCall(r, token) ==
    [route |-> r,
     index |-> 0,
     token |-> token,
     path  |-> CASE r = "accounts"        -> <<"accounts">>
                 [] r = "locations"       -> <<"accounts", AccountId, "locations">>
                 [] r = "reviewsStats"    -> <<"accounts", AccountId, "locations", LocationId, "reviews">>
                 [] r = "allReviewsStats" -> <<"accounts", AccountId, "locations">>]

\* `${GMB_API_BASE_URL}/${location.name}/reviews`: a missing name is
\* interpolated as the text "undefined"
reviewsPath(location) ==
    IF Has(location, "name") THEN Append(location.name, "reviews")
    ELSE <<"undefined", "reviews">>

\* Mutant of fanOutCalls: every reviews call is issued a second time
fanOutCallsRetried(locs, token) ==
    [k \in 1..(2 * Len(locs)) |->
        [route |-> "allReviewsStats", index |-> ((k + 1) \div 2), token |-> token,
         path  |-> reviewsPath(locs[(k + 1) \div 2])]]

\* The calls of locations.map: one per location, all issued before the
\* handler reaches its await
fanOutCalls(locs, token) ==
    [i \in 1..Len(locs) |->
        [route |-> "allReviewsStats", index |-> i, token |-> token,
         path  |-> reviewsPath(locs[i])]]

-----------------------------------------------------------------------------
(* Promise.all *)

AllFulfilled(ps) == \A i \in 1..Len(ps) : ps[i].state = "fulfilled"
Values(ps) == [i \in 1..Len(ps) |-> ps[i].value]

-----------------------------------------------------------------------------
(* Initial state and actions *)

Init ==
    /\ pc = "idle"
    /\ route = "none"
    /\ authHeader = <<>>
    /\ accessToken = <<>>
    /\ firstReply = <<>>
    /\ locations = <<>>
    /\ replies = <<>>
    /\ promises = <<>>
    /\ joined = FALSE
    /\ issued = <<>>
    /\ responses = <<>>

\* A request arrives: validateToken, then the handler up to its first await
Request(r, h) ==
    /\ pc = "idle"
    /\ route' = r
    /\ authHeader' = h
    /\ IF tokenRejected(h)
       THEN /\ responses' = Append(responses, unauthorized)
            /\ pc' = "done"
            /\ UNCHANGED <<accessToken, issued>>
       ELSE /\ accessToken' = tokenOf(h)
            /\ issued' = Append(issued, firstCall(r, tokenOf(h)))
            /\ pc' = IF r = "allReviewsStats" THEN "awaitList" ELSE "awaitUpstream"
            /\ UNCHANGED responses
    /\ UNCHANGED <<firstReply, locations, replies, promises, joined>>

\* GET /api/accounts after its await
AccountsReply(outcome) ==
    /\ pc = "awaitUpstream" /\ route = "accounts"
    /\ responses' = Append(responses,
            IF outcome.ok THEN accountsOk(outcome.data) ELSE accountsCatch(outcome.error))
    /\ firstReply' = <<outcome>>
    /\ pc' = "done"
    /\ UNCHANGED <<route, authHeader, accessToken, locations, replies,
                   promises, joined, issued>>

\* GET /api/accounts/:accountId/locations after its await
LocationsReply(outcome) ==
    /\ pc = "awaitUpstream" /\ route = "locations"
    /\ responses' = Append(responses,
            IF outcome.ok THEN locationsOk(outcome.data) ELSE locationsCatch(outcome.error))
    /\ firstReply' = <<outcome>>
    /\ pc' = "done"
    /\ UNCHANGED <<route, authHeader, accessToken, locations, replies,
                   promises, joined, issued>>

\* GET .../locations/:locationId/reviews-stats after its await
ReviewsStatsReply(outcome) ==
    /\ pc = "awaitUpstream" /\ route = "reviewsStats"
    /\ responses' = Append(responses,
            IF outcome.ok THEN reviewsStatsOk(outcome.data) ELSE reviewsStatsCatch(outcome.error))
    /\ firstReply' = <<outcome>>
    /\ pc' = "done"
    /\ UNCHANGED <<route, authHeader, accessToken, locations, replies,
                   promises, joined, issued>>

\* GET .../all-reviews-stats: the list call fails, the outer catch answers
ListFails(error) ==
    /\ pc = "awaitList"
    /\ firstReply' = <<Rejected(error)>>
    /\ responses' = Append(responses, allReviewsStatsCatch(error))
    /\ pc' = "done"
    /\ UNCHANGED <<route, authHeader, accessToken, locations, replies,
                   promises, joined, issued>>

\* GET .../all-reviews-stats: the list call succeeds; locations.map starts
\* every callback, each of which issues its reviews call and suspends; then
\* the handler awaits Promise.all, which for an empty array is fulfilled
\* at once
ListSucceeds(data) ==
    LET locs == IF Has(data, "locations") THEN data.locations ELSE <<>>
    IN  /\ pc = "awaitList"
        /\ firstReply' = <<Fulfilled(data)>>
        /\ locations' = locs
        /\ replies' = [i \in 1..Len(locs) |-> "pending"]
        /\ promises' = [i \in 1..Len(locs) |-> Pending]
        /\ issued' = issued \o fanOutCalls(locs, accessToken)
        /\ IF locs = <<>>
           THEN /\ joined' = TRUE
                /\ responses' = Append(responses, allReviewsStatsOk(locs, <<>>))
                /\ pc' = "done"
           ELSE /\ pc' = "awaitAll"
                /\ UNCHANGED <<joined, responses>>
        /\ UNCHANGED <<route, authHeader, accessToken>>

\* The reviews call of location i is answered: its callback settles promise
\* i.  Promise.all rejects with the first rejection and is fulfilled with
\* the last fulfilment; once it has settled, later settlements change
\* nothing.  The handler resumes when Promise.all settles.
ReviewsReply(i, outcome) ==
    LET settled == statsCallback(locations[i], outcome)
        ps      == [promises EXCEPT ![i] = settled]
    IN  /\ i \in 1..Len(promises)
        /\ promises[i].state = "pending"
        /\ promises' = ps
        /\ replies' = [replies EXCEPT ![i] = IF outcome.ok THEN "ok" ELSE "failed"]
        /\ IF joined
           THEN UNCHANGED <<joined, responses, pc>>
           ELSE IF settled.state = "rejected"
           THEN /\ joined' = TRUE
                /\ responses' = Append(responses, allReviewsStatsCatch(settled.reason))
                /\ pc' = "done"
           ELSE IF AllFulfilled(ps)
           THEN /\ joined' = TRUE
                /\ responses' = Append(responses, allReviewsStatsOk(locations, Values(ps)))
                /\ pc' = "done"
           ELSE UNCHANGED <<joined, responses, pc>>
        /\ UNCHANGED <<route, authHeader, accessToken, firstReply, locations, issued>>

Next ==
    \/ \E r \in Routes, h \in AuthHeaders : Request(r, h)
    \/ \E o \in AccountsOutcomes : AccountsReply(o)
    \/ \E o \in ListOutcomes : LocationsReply(o)
    \/ \E o \in ReviewsOutcomes : ReviewsStatsReply(o)
    \/ \E e \in AxiosErrors : ListFails(e)
    \/ \E d \in ListBodies : ListSucceeds(d)
    \/ \E i \in 1..MaxLocations, o \in ReviewsOutcomes : ReviewsReply(i, o)

Spec == Init /\ [][Next]_vars

-----------------------------------------------------------------------------
(* Vocabulary of the properties *)

Answered == responses # <<>>
Response == responses[1]
Body     == Response.body

SaysSuccess(b) == Has(b, "success") /\ b.success = TRUE
SaysFailure(b) == Has(b, "success") /\ b.success = FALSE

Aggregating == route = "allReviewsStats"
ListOk      == Aggregating /\ firstReply # <<>> /\ firstReply[1].ok
ListFailed  == Aggregating /\ firstReply # <<>> /\ ~firstReply[1].ok
FirstFailed == firstReply # <<>> /\ ~firstReply[1].ok

\* A header value of the form "Bearer <token>": the scheme and a space,
\* then a non-empty token
WellFormed(v) ==
    /\ Len(v) > Len(BearerPrefix)
    /\ \A k \in 1..Len(BearerPrefix) : v[k] = BearerPrefix[k]
NoCredentials(h) == h = <<>> \/ ~WellFormed(h[1])

\* Upstream calls issued for the location at position i of the list
CallsFor(i) == { k \in 1..Len(issued) : issued[k].index = i }
\* Upstream calls that are not reviews calls of the fan-out
FirstCalls == { k \in 1..Len(issued) : issued[k].index = 0 }

\* The status an upstream error carries, 500 when it carries none
UpstreamStatus(error) ==
    IF Has(error, "response") THEN error.response.status ELSE 500

\* Sum of f[1..n], from the last term down
RECURSIVE SumTo(_, _)
SumTo(f, n) == IF n = 0 THEN 0 ELSE f[n] + SumTo(f, n - 1)

DigitValue(c) == CHOOSE d \in 0..9 : DigitChars[d + 1] = c

\* The number a decimal numeral with two decimals denotes, in hundredths
RECURSIVE Hundredths(_)
Hundredths(chars) ==
    IF chars = <<>> THEN 0
    ELSE LET last == chars[Len(chars)]
             rest == SubSeq(chars, 1, Len(chars) - 1)
         IN  IF last = "." THEN Hundredths(rest)
             ELSE 10 * Hundredths(rest) + DigitValue(last)

-----------------------------------------------------------------------------
(* Properties *)

\* C1: when the location list is fetched with N locations, the response
\* carries a locationStats of exactly N entries, and entry i is derived from
\* location i of the list, whatever the order in which the reviews calls
\* were answered.
C1_StatsFollowListOrder ==
    (ListOk /\ Answered) =>
        /\ Has(Body, "locationStats")
        /\ Len(Body.locationStats) = Len(locations)
        /\ \A i \in 1..Len(locations) :
              /\ Has(locations[i], "name")
              /\ Body.locationStats[i].locationId = locations[i].name[Len(locations[i].name)]
              /\ Body.locationStats[i].locationName = locationNameOf(locations[i])

\* C2: when reviews calls fail, the response still says success and has N
\* entries; the entry of a failed call has zero counters and a non-empty
\* error, the entry of a successful call has no error.
C2_FailuresAbsorbed ==
    (ListOk /\ Answered /\ \E i \in 1..Len(replies) : replies[i] = "failed") =>
        /\ SaysSuccess(Body)
        /\ Len(Body.locationStats) = Len(locations)
        /\ \A i \in 1..Len(locations) :
              /\ replies[i] = "failed" =>
                    /\ Body.locationStats[i].totalReviewCount = 0
                    /\ Body.locationStats[i].averageRating = 0
                    /\ Has(Body.locationStats[i], "error")
                    /\ Body.locationStats[i].error # ""
              /\ replies[i] = "ok" => ~Has(Body.locationStats[i], "error")

\* C3: an aggregation request that passed token validation is answered with
\* success=false only if its location-list call failed.
C3_FailsOnlyOnListFailure ==
    (Aggregating /\ Answered /\ ~tokenRejected(authHeader) /\ SaysFailure(Body))
        => ListFailed

\* C4: when the location-list call fails, the response says success=false
\* with the upstream status (500 without one), carries neither locationStats
\* nor globalStats, and no reviews call is issued.
C4_ListFailurePropagates ==
    ListFailed =>
        /\ Len(responses) = 1
        /\ SaysFailure(Body)
        /\ Response.status = UpstreamStatus(firstReply[1].error)
        /\ ~Has(Body, "locationStats")
        /\ ~Has(Body, "globalStats")
        /\ \A k \in 1..Len(issued) : issued[k].index = 0
        /\ replies = <<>>

C4_Witness ==
    /\ ListFailed
    /\ firstReply[1].error = ErrNotFound
    /\ Answered
    /\ Response.status = 404

\* C5: in a successful aggregation response, totalReviews is the sum of
\* totalReviewCount over the entries of the locationStats of the same
\* response, and totalLocations is the length of that locationStats.
C5_TotalsMatchEntries ==
    (Aggregating /\ Answered /\ SaysSuccess(Body)) =>
        /\ Body.globalStats.totalReviews =
              SumTo([i \in 1..Len(Body.locationStats) |->
                        Body.locationStats[i].totalReviewCount],
                    Len(Body.locationStats))
        /\ Body.globalStats.totalLocations = Len(Body.locationStats)

C5_Witness ==
    /\ Aggregating /\ Answered /\ SaysSuccess(Body)
    /\ Len(Body.locationStats) = 3
    /\ \E i \in 1..3 : Has(Body.locationStats[i], "error")
    /\ Body.globalStats.totalReviews = 13

\* C6: in a successful aggregation response, averageRatingAcrossAllLocations
\* denotes the mean of averageRating over all N entries (failed ones counting
\* as 0), rounded to two decimals: with S the sum of the ratings in eighths
\* and h the value in hundredths, h - 1/2 <= 100 * S / (8 * N) < h + 1/2.
\* It is 0 when there is no entry.
C6_MeanOverAllEntries ==
    (Aggregating /\ Answered /\ SaysSuccess(Body)) =>
        LET stats == Body.locationStats
            N     == Len(stats)
            S     == SumTo([i \in 1..N |-> stats[i].averageRating], N)
            avg   == Body.globalStats.averageRatingAcrossAllLocations
        IN  IF N = 0
            THEN avg.type = "number" /\ avg.value = 0
            ELSE LET h == Hundredths(avg.chars)
                 IN  /\ 2 * N * h - N <= 25 * S
                     /\ 25 * S < 2 * N * h + N

\* The example: (10 reviews, 4.5) and a failed entry give 2.25
C6_Witness ==
    /\ Aggregating /\ Answered /\ SaysSuccess(Body)
    /\ Len(Body.locationStats) = 2
    /\ Body.locationStats[1].totalReviewCount = 10
    /\ Body.locationStats[1].averageRating = 36
    /\ Has(Body.locationStats[2], "error")
    /\ Body.globalStats.averageRatingAcrossAllLocations.chars = <<"2", ".", "2", "5">>

\* C7: on each protected route, a request without an Authorization header,
\* or with one that is not of the form "Bearer <token>", is answered 401
\* with a body that does not say success=true, and no upstream call is
\* issued for it.
C7_NoTokenNoUpstream ==
    (pc # "idle" /\ NoCredentials(authHeader)) =>
        /\ Len(responses) = 1
        /\ Response.status = 401
        /\ ~SaysSuccess(Body)
        /\ issued = <<>>
        /\ pc = "done"

C7_Witness ==
    /\ route = "allReviewsStats"
    /\ authHeader = << <<"B", "a", "s", "i", "c", " ", "t">> >>
    /\ Answered
    /\ Response.status = 401

\* C8: when the upstream call of a single-location reviews-stats request
\* fails, the response says success=false with the upstream status (500
\* without one) and the upstream error body, or the message without one;
\* it is never a success with zeroed stats.
C8_SingleLocationPropagates ==
    (route = "reviewsStats" /\ FirstFailed) =>
        LET error == firstReply[1].error
        IN  /\ Len(responses) = 1
            /\ SaysFailure(Body)
            /\ ~Has(Body, "stats")
            /\ Response.status = UpstreamStatus(error)
            /\ IF Has(error, "response") /\ Has(error.response, "data")
               THEN Body.error = error.response.data
               ELSE Body.error = error.message

C8_Witness ==
    /\ route = "reviewsStats"
    /\ FirstFailed
    /\ firstReply[1].error = ErrNotFound
    /\ Answered
    /\ Response.status = 404

\* C9: every reviews call is issued before the handler waits for any of
\* them, and the response is sent only once every one of the N calls has
\* been answered: a call that is never answered means no response.
C9_JoinWaitsForAll ==
    /\ (ListOk /\ pc = "awaitAll") =>
          \A i \in 1..Len(locations) : CallsFor(i) # {}
    /\ (ListOk /\ Answered) =>
          \A i \in 1..Len(locations) : replies[i] # "pending"

\* C10: no retries.  An aggregation request issues exactly one list call
\* and at most one reviews call per location, exactly one once the list
\* call has succeeded, and none after a failed one is answered; every other
\* authenticated request issues exactly one upstream call.
C10_NoRetries ==
    /\ Cardinality(FirstCalls) <= 1
    /\ (pc # "idle" /\ ~tokenRejected(authHeader)) => Cardinality(FirstCalls) = 1
    /\ ~Aggregating => Len(issued) = Cardinality(FirstCalls)
    /\ \A i \in 1..MaxLocations : Cardinality(CallsFor(i)) <= 1
    /\ ListOk => /\ Len(issued) = 1 + Len(locations)
                 /\ \A i \in 1..Len(locations) : Cardinality(CallsFor(i)) = 1
    /\ ~ListOk => Len(issued) = Cardinality(FirstCalls)

C10_Witness ==
    /\ ListOk
    /\ Len(locations) = 3
    /\ replies = <<"failed", "ok", "failed">>
    /\ pc = "done"
    /\ \A i \in 1..3 : Cardinality(CallsFor(i)) = 1

-----------------------------------------------------------------------------
(* The aggregation when every location of the list has a name: no callback *)
(* throws, and the order, absorption and join properties hold.             *)

EveryLocationNamed == \A i \in 1..Len(locations) : Has(locations[i], "name")

NamedStatsFollowListOrder == EveryLocationNamed => C1_StatsFollowListOrder
NamedFailuresAbsorbed     == EveryLocationNamed => C2_FailuresAbsorbed
NamedFailsOnlyOnListFailure == EveryLocationNamed => C3_FailsOnlyOnListFailure
NamedJoinWaitsForAll      == EveryLocationNamed => C9_JoinWaitsForAll

====
